---- MODULE Spec2Model ----
(***************************************************************************)
(* Model of the SNMP client-discovery engine of the LANCOM LMC dashboard   *)
(* backend (src/server.js): the walk executor runSnmpWalk, the parsers     *)
(* macFromDecOid / macFromHexStr, the table builders and the resolver      *)
(* snmpMacTable with its WLAN fallback snmpLancomWlanClients, and the      *)
(* POST /snmp request handler.                                             *)
(*                                                                         *)
(* Text representation.  A JavaScript string is a sequence of characters,  *)
(* each character a one-character TLA+ string.  The output of a walk is a  *)
(* sequence of lines (the result of out.split('\n')); a line of a table    *)
(* walk is a record                                                        *)
(*     [root |-> which OID root the line carries,                          *)
(*      suffix |-> the dotted OID text after the root, split at the dots   *)
(*                 (a sequence of components, each a sequence of digit     *)
(*                 characters, possibly empty),                            *)
(*      rhs |-> the text after the equals sign, a sequence of tokens]        *)
(* A token of rhs is one character, or one of the type tags INTEGER:,      *)
(* STRING:, Hex-STRING: taken as a unit.                                   *)
(***************************************************************************)
EXTENDS Integers, Sequences, FiniteSets, TLC

\* ------------------------------------------------------------------ text

DigitChars == <<"0", "1", "2", "3", "4", "5", "6", "7", "8", "9">>

HexChars == <<"0", "1", "2", "3", "4", "5", "6", "7", "8", "9",
              "a", "b", "c", "d", "e", "f">>

LowerLetters == <<"a", "b", "c", "d", "e", "f", "g", "h", "i", "j", "k", "l", "m",
                  "n", "o", "p", "q", "r", "s", "t", "u", "v", "w", "x", "y", "z">>

UpperLetters == <<"A", "B", "C", "D", "E", "F", "G", "H", "I", "J", "K", "L", "M",
                  "N", "O", "P", "Q", "R", "S", "T", "U", "V", "W", "X", "Y", "Z">>

IsDigit(c) == \E i \in 1..10 : DigitChars[i] = c

DigitVal(c) == (CHOOSE i \in 1..10 : DigitChars[i] = c) - 1

IsLowerHex(c) == \E i \in 1..16 : HexChars[i] = c

IsUpperHex(c) == \E i \in 1..6 : UpperLetters[i] = c

IsLower(c) == \E i \in 1..26 : LowerLetters[i] = c

IsUpper(c) == \E i \in 1..26 : UpperLetters[i] = c

\* \s of a JavaScript regular expression, over the characters the model uses
IsSpace(c) == c \in {" ", "\t", "\n", "\r"}

\* String.prototype.toLowerCase on one character
ToLower(c) == IF IsUpper(c)
              THEN LowerLetters[CHOOSE i \in 1..26 : UpperLetters[i] = c]
              ELSE c

\* NaN, the value of parseInt on a string that does not start with a digit
NaN == 0 - 1

RECURSIVE DigitsValue(_, _)
\* the number written by the digit characters ds, continuing from acc
DigitsValue(ds, acc) ==
    IF ds = <<>> THEN acc
    ELSE DigitsValue(Tail(ds), acc * 10 + DigitVal(Head(ds)))

RECURSIVE LeadingDigits(_)
\* the longest prefix of s made of digit characters
LeadingDigits(s) ==
    IF s = <<>> \/ ~IsDigit(Head(s)) THEN <<>>
    ELSE <<Head(s)>> \o LeadingDigits(Tail(s))

\* parseInt(s, 10) for s without sign or leading blanks
ParseInt(s) ==
    LET ds == LeadingDigits(s)
    IN  IF ds = <<>> THEN NaN ELSE DigitsValue(ds, 0)

RECURSIVE ToBase(_, _)
\* the digits of n >= 0 in base b (2..16), most significant first
ToBase(n, b) ==
    IF n < b THEN <<HexChars[n + 1]>>
    ELSE ToBase(n \div b, b) \o <<HexChars[(n % b) + 1]>>

\* Number.prototype.toString(16); NaN prints as the text NaN
ToHexString(n) == IF n = NaN THEN <<"N", "a", "N">> ELSE ToBase(n, 16)

\* String(n) / template literal ${n} of a number
ToDecString(n) == IF n = NaN THEN <<"N", "a", "N">> ELSE ToBase(n, 10)

\* String.prototype.padStart(2, '0')
PadStart2(s) ==
    IF Len(s) >= 2 THEN s
    ELSE IF Len(s) = 1 THEN <<"0">> \o s
    ELSE <<"0", "0">>

\* ------------------------------------------------------------ OID parsers

\* macFromDecOid: null is modelled by the empty sequence
NoMac == <<>>

macFromDecOid(suffix) ==
    IF Len(suffix) # 6 THEN NoMac
    ELSE [i \in 1..6 |-> PadStart2(ToHexString(ParseInt(suffix[i])))]

RECURSIVE StripSeparators(_)
\* str.replace(/[:\s]/g, '').toLowerCase()
StripSeparators(s) ==
    IF s = <<>> THEN <<>>
    ELSE IF Head(s) = ":" \/ IsSpace(Head(s)) THEN StripSeparators(Tail(s))
    ELSE <<ToLower(Head(s))>> \o StripSeparators(Tail(s))

macFromHexStr(str) ==
    LET hex == StripSeparators(str)
    IN  IF Len(hex) # 12 THEN NoMac
        ELSE [i \in 1..6 |-> <<hex[2 * i - 1], hex[2 * i]>>]

\* a MAC address in canonical form: six groups of two lower-case hex digits
IsCanonicalMac(mac) ==
    /\ Len(mac) = 6
    /\ \A i \in 1..6 :
         /\ Len(mac[i]) = 2
         /\ IsLowerHex(mac[i][1])
         /\ IsLowerHex(mac[i][2])

\* ------------------------------------------------- JavaScript object maps

(* A JavaScript object used as a map is a sequence of [k, v] records in   *)
(* insertion order (Object.entries / Object.values order for keys that    *)
(* are not array indices: every MAC key holds five colons).                *)
EmptyMap == <<>>

HasKey(m, k) == \E i \in 1..Len(m) : m[i].k = k

Lookup(m, k) == m[CHOOSE i \in 1..Len(m) : m[i].k = k].v

\* a faulty variant: every assignment makes a new property
AssignAppends(m, k, v) == Append(m, [k |-> k, v |-> v])

\* m[k] = v: an existing key keeps its place
Assign(m, k, v) ==
    IF HasKey(m, k)
    THEN [i \in 1..Len(m) |-> IF m[i].k = k THEN [k |-> k, v |-> v] ELSE m[i]]
    ELSE Append(m, [k |-> k, v |-> v])

\* ---------------------------------------------------------- line patterns

RECURSIVE SkipSpaces(_)
\* the rest of s after a greedy \s*
SkipSpaces(s) ==
    IF s # <<>> /\ IsSpace(Head(s)) THEN SkipSpaces(Tail(s)) ELSE s

RECURSIVE TrimEnd(_)
TrimEnd(s) ==
    IF s # <<>> /\ IsSpace(s[Len(s)]) THEN TrimEnd(SubSeq(s, 1, Len(s) - 1)) ELSE s

\* String.prototype.trim
Trim(s) == TrimEnd(SkipSpaces(s))

\* the text of a dotted suffix is empty: ''.split('.') is ['']
EmptySuffix == << <<>> >>

\* \s*=\s*INTEGER:\s*(\d+) : the digits of the integer value, <<>> when the
\* right-hand side does not have that form
IntegerDigits(rhs) ==
    LET r == SkipSpaces(rhs)
    IN  IF r # <<>> /\ Head(r) = "INTEGER:"
        THEN LeadingDigits(SkipSpaces(Tail(r)))
        ELSE <<>>

NoMatch == [ok |-> FALSE]

\* /17\.4\.3\.1\.2\.([\d.]+)\s*=\s*INTEGER:\s*(\d+)/
FdbMatch(line) ==
    IF /\ line.root = "fdb"
       /\ line.suffix # EmptySuffix
       /\ IntegerDigits(line.rhs) # <<>>
    THEN [ok |-> TRUE, suffix |-> line.suffix, port |-> IntegerDigits(line.rhs)]
    ELSE NoMatch

\* /17\.7\.1\.2\.2\.1\.2\.\d+\.([\d.]+)\s*=\s*INTEGER:\s*(\d+)/
\* the first component is the VLAN id (\d+, not empty), the rest is m[1]
QFdbMatch(line) ==
    IF /\ line.root = "qfdb"
       /\ Len(line.suffix) >= 2
       /\ line.suffix[1] # <<>>
       /\ Tail(line.suffix) # EmptySuffix
       /\ IntegerDigits(line.rhs) # <<>>
    THEN [ok |-> TRUE, suffix |-> Tail(line.suffix),
          port |-> IntegerDigits(line.rhs)]
    ELSE NoMatch

\* /17\.1\.4\.1\.2\.(\d+)\s*=\s*INTEGER:\s*(\d+)/
BpMatch(line) ==
    IF /\ line.root = "bp"
       /\ Len(line.suffix) = 1
       /\ line.suffix[1] # <<>>
       /\ IntegerDigits(line.rhs) # <<>>
    THEN [ok |-> TRUE, key |-> line.suffix[1], val |-> IntegerDigits(line.rhs)]
    ELSE NoMatch

(* The string pattern that ends the ifName and SSID line patterns, on a    *)
(* right-hand side: blanks, an optional STRING: tag with blanks, an        *)
(* optional double quote, a lazy group of one or more characters other     *)
(* than the double quote, an optional double quote, blanks, end of line.   *)
(* The set of ways the pattern can match, each a record                    *)
(*   a  blanks taken by the first \s*        (greedy: more first)          *)
(*   b  1 when the STRING: tag is taken      (greedy: taken first)         *)
(*   s  blanks taken after the tag           (greedy: more first)          *)
(*   q  1 when the opening quote is taken    (greedy: taken first)         *)
(*   g  length of the captured group         (lazy: shorter first)         *)
(* after the group an optional quote and blanks must reach the end.        *)
StringParses(rhs) ==
    LET n == Len(rhs)
        AllSpace(i, j) == \A p \in i..j : IsSpace(rhs[p])
        Rest(start) ==
            \/ AllSpace(start, n)
            \/ start <= n /\ rhs[start] = "\"" /\ AllSpace(start + 1, n)
        Lead == {a \in 0..n : AllSpace(1, a)}
    IN  UNION { { t \in [a : {a}, b : 0..1, s : 0..(n - a), q : 0..1, g : 1..(n - a)] :
                    LET tagAt == t.a + 1
                        afterTag == t.a + t.b + t.s
                        grpAt == afterTag + t.q + 1
                        grpEnd == grpAt + t.g - 1
                    IN  /\ grpEnd <= n
                        /\ t.b = 1 => rhs[tagAt] = "STRING:"
                        /\ t.b = 0 => t.s = 0
                        /\ AllSpace(t.a + t.b + 1, afterTag)
                        /\ t.q = 1 => rhs[afterTag + 1] = "\""
                        /\ \A p \in grpAt..grpEnd : rhs[p] # "\""
                        /\ Rest(grpEnd + 1) }
                : a \in Lead }

\* t is tried before u by the backtracking matcher
TriedBefore(t, u) ==
    \/ t.a > u.a
    \/ t.a = u.a /\ t.b > u.b
    \/ t.a = u.a /\ t.b = u.b /\ t.s > u.s
    \/ t.a = u.a /\ t.b = u.b /\ t.s = u.s /\ t.q > u.q
    \/ t.a = u.a /\ t.b = u.b /\ t.s = u.s /\ t.q = u.q /\ t.g < u.g

\* m[2].trim() of the string pattern; defined when StringParses(rhs) # {}
StringValue(rhs) ==
    LET P == StringParses(rhs)
        t == CHOOSE c \in P : \A u \in P : u = c \/ TriedBefore(c, u)
        grpAt == t.a + t.b + t.s + t.q + 1
    IN  Trim(SubSeq(rhs, grpAt, grpAt + t.g - 1))

\* /31\.1\.1\.1\.1\.(\d+) followed by the string pattern/
IfNameMatch(line) ==
    IF /\ line.root = "ifName"
       /\ Len(line.suffix) = 1
       /\ line.suffix[1] # <<>>
       /\ StringParses(line.rhs) # {}
    THEN [ok |-> TRUE, key |-> line.suffix[1], val |-> StringValue(line.rhs)]
    ELSE NoMatch

\* /2356\.13\.1\.3\.32\.1\.3\.([\d.]+) followed by the string pattern/
SsidMatch(line) ==
    IF /\ line.root = "ssid"
       /\ line.suffix # EmptySuffix
       /\ StringParses(line.rhs) # {}
    THEN [ok |-> TRUE, suffix |-> line.suffix, val |-> StringValue(line.rhs)]
    ELSE NoMatch

IsHexOrBlank(c) == IsDigit(c) \/ IsLowerHex(c) \/ IsUpperHex(c) \/ c = " "

\* the ARP line pattern: /4\.22\.1\.2\.\d+\.([\d.]+) then blanks, =, blanks, an
\* optional Hex-STRING: tag with blanks, ([\dA-Fa-f ]+), blanks, end of line;
\* the first component is the interface index (\d+), the rest is m[1];
\* hex is m[2].trim()
ArpMatch(line) ==
    LET r0 == SkipSpaces(line.rhs)
        r1 == IF r0 # <<>> /\ Head(r0) = "Hex-STRING:" THEN Tail(r0) ELSE r0
        hex == Trim(r1)
    IN  IF /\ line.root = "arp"
           /\ Len(line.suffix) >= 2
           /\ line.suffix[1] # <<>>
           /\ Tail(line.suffix) # EmptySuffix
           /\ r1 # <<>>
           /\ \A p \in 1..Len(hex) : IsHexOrBlank(hex[p])
           /\ \A p \in 1..Len(r1) : IsHexOrBlank(r1[p]) \/ IsSpace(r1[p])
        THEN [ok |-> TRUE, ip |-> Tail(line.suffix), hex |-> hex]
        ELSE NoMatch

\* the client-table line pattern /2356\.13\.1\.3\.4\.1\.1\.(\d+)\.([\d.]+)\s*=\s*(.*)/
\* col is m[1], suffix is m[2], val is m[3].trim()
ClientMatch(line) ==
    IF /\ line.root = "client"
       /\ Len(line.suffix) >= 2
       /\ line.suffix[1] # <<>>
       /\ Tail(line.suffix) # EmptySuffix
    THEN [ok |-> TRUE, col |-> line.suffix[1], suffix |-> Tail(line.suffix),
          val |-> Trim(line.rhs)]
    ELSE NoMatch

RECURSIVE FirstDigitRun(_)
\* val.match(/(\d+)/): the first run of digits of val, <<>> when there is none
FirstDigitRun(s) ==
    IF s = <<>> THEN <<>>
    ELSE IF IsDigit(Head(s)) THEN LeadingDigits(s)
    ELSE FirstDigitRun(Tail(s))

\* --------------------------------------------------------- table builders

\* a JavaScript number is falsy when it is 0 or NaN
Falsy(n) == n = 0 \/ n = NaN

RECURSIVE BuildFdb(_, _)
\* classic Bridge-MIB: macToBp[mac] = port, the last line of a MAC wins
BuildFdb(lines, macToBp) ==
    IF lines = <<>> THEN macToBp
    ELSE LET m == FdbMatch(Head(lines))
             mac == IF m.ok THEN macFromDecOid(m.suffix) ELSE NoMac
         IN  BuildFdb(Tail(lines),
                      IF mac # NoMac
                      THEN Assign(macToBp, mac, ParseInt(m.port))
                      ELSE macToBp)

\* Q-Bridge: if (mac && !macToBp[mac]) macToBp[mac] = port
QFdbKeeps(macToBp, mac) == HasKey(macToBp, mac) /\ ~Falsy(Lookup(macToBp, mac))

RECURSIVE BuildQFdb(_, _)
BuildQFdb(lines, macToBp) ==
    IF lines = <<>> THEN macToBp
    ELSE LET m == QFdbMatch(Head(lines))
             mac == IF m.ok THEN macFromDecOid(m.suffix) ELSE NoMac
         IN  BuildQFdb(Tail(lines),
                       IF mac # NoMac /\ ~QFdbKeeps(macToBp, mac)
                       THEN Assign(macToBp, mac, ParseInt(m.port))
                       ELSE macToBp)

\* a faulty variant: the Q-Bridge walk is always parsed
UseQBridgeAlways(macToBp) == TRUE

\* the Q-Bridge walk is parsed only when the classic walk gave no MAC
UseQBridge(macToBp) == Len(macToBp) = 0

\* MAC -> bridge port: classic Bridge MIB first, Q-Bridge MIB as fallback
BuildMacToBp(fdbOut, qfdbOut) ==
    LET classic == BuildFdb(fdbOut, EmptyMap)
    IN  IF UseQBridge(classic) THEN BuildQFdb(qfdbOut, classic) ELSE classic

RECURSIVE BuildBpToIf(_, _)
\* bridge port (the digits as written) -> ifIndex
BuildBpToIf(lines, bpToIf) ==
    IF lines = <<>> THEN bpToIf
    ELSE LET m == BpMatch(Head(lines))
         IN  BuildBpToIf(Tail(lines),
                         IF m.ok THEN Assign(bpToIf, m.key, ParseInt(m.val))
                         ELSE bpToIf)

RECURSIVE BuildIfNames(_, _)
\* ifIndex (the digits as written) -> interface name
BuildIfNames(lines, ifNames) ==
    IF lines = <<>> THEN ifNames
    ELSE LET m == IfNameMatch(Head(lines))
         IN  BuildIfNames(Tail(lines),
                          IF m.ok THEN Assign(ifNames, m.key, m.val) ELSE ifNames)

\* an absent IP address (null); a present one is the dotted text m[1], split
NoIp == <<>>

RECURSIVE BuildMacToIp(_, _)
\* ARP: MAC -> IP, kept only when m[1] has four components
BuildMacToIp(lines, macToIp) ==
    IF lines = <<>> THEN macToIp
    ELSE LET m == ArpMatch(Head(lines))
             mac == IF m.ok /\ Len(m.ip) = 4 THEN macFromHexStr(m.hex) ELSE NoMac
         IN  BuildMacToIp(Tail(lines),
                          IF mac # NoMac THEN Assign(macToIp, mac, m.ip)
                          ELSE macToIp)

RECURSIVE BuildMacToSsid(_, _)
BuildMacToSsid(lines, macToSsid) ==
    IF lines = <<>> THEN macToSsid
    ELSE LET m == SsidMatch(Head(lines))
             mac == IF m.ok THEN macFromDecOid(m.suffix) ELSE NoMac
         IN  BuildMacToSsid(Tail(lines),
                            IF mac # NoMac THEN Assign(macToSsid, mac, m.val)
                            ELSE macToSsid)

\* channel: null and band: null of a fresh client record
Null == 0 - 2

RECURSIVE BuildClients(_, _)
\* client table: one record per MAC, col 2 sets the channel, col 3 the band
BuildClients(lines, clients) ==
    IF lines = <<>> THEN clients
    ELSE LET m == ClientMatch(Head(lines))
             mac == IF m.ok THEN macFromDecOid(m.suffix) ELSE NoMac
             col == ParseInt(m.col)
             n == FirstDigitRun(m.val)
             old == IF HasKey(clients, mac) THEN Lookup(clients, mac)
                    ELSE [mac |-> mac, channel |-> Null, band |-> Null]
             new == [old EXCEPT
                       !.channel = IF col = 2 /\ n # <<>> THEN ParseInt(n) ELSE @,
                       !.band = IF col = 3 /\ n # <<>> THEN ParseInt(n) ELSE @]
         IN  BuildClients(Tail(lines),
                          IF mac # NoMac THEN Assign(clients, mac, new)
                          ELSE clients)

\* ------------------------------------------------------------- collation

\* primary collation weight of a character that is not a digit: blanks, then
\* punctuation, then symbols, (digits,) then letters without regard to case
PrimaryWeight(c) ==
    IF IsSpace(c) THEN 1
    ELSE IF c = "_" THEN 2
    ELSE IF c = "-" THEN 3
    ELSE IF c = ":" THEN 4
    ELSE IF c = "." THEN 5
    ELSE IF c = "(" THEN 6
    ELSE IF c = ")" THEN 7
    ELSE IF IsLower(c) THEN 40 + (CHOOSE i \in 1..26 : LowerLetters[i] = c)
    ELSE IF IsUpper(c) THEN 40 + (CHOOSE i \in 1..26 : UpperLetters[i] = c)
    ELSE 20

\* a faulty variant: every digit is an element of its own
CollationKeyByCharacter(s) ==
    [i \in 1..Len(s) |->
       IF IsDigit(s[i]) THEN [w |-> 30, n |-> DigitVal(s[i])]
       ELSE [w |-> PrimaryWeight(s[i]), n |-> 0]]

RECURSIVE CollationKey(_)
\* numeric collation: a run of digits is one element that carries its value
CollationKey(s) ==
    IF s = <<>> THEN <<>>
    ELSE IF IsDigit(Head(s))
    THEN LET ds == LeadingDigits(s)
         IN  <<[w |-> 30, n |-> DigitsValue(ds, 0)]>>
             \o CollationKey(SubSeq(s, Len(ds) + 1, Len(s)))
    ELSE <<[w |-> PrimaryWeight(Head(s)), n |-> 0]>> \o CollationKey(Tail(s))

RECURSIVE CaseKey(_)
\* tertiary difference: lower case before upper case
CaseKey(s) ==
    IF s = <<>> THEN <<>>
    ELSE <<[w |-> IF IsUpper(Head(s)) THEN 1 ELSE 0, n |-> 0]>> \o CaseKey(Tail(s))

RECURSIVE CompareKeys(_, _)
\* lexicographic comparison of two key sequences: -1, 0 or 1
CompareKeys(a, b) ==
    IF a = <<>> /\ b = <<>> THEN 0
    ELSE IF a = <<>> THEN 0 - 1
    ELSE IF b = <<>> THEN 1
    ELSE IF Head(a).w # Head(b).w THEN (IF Head(a).w < Head(b).w THEN 0 - 1 ELSE 1)
    ELSE IF Head(a).n # Head(b).n THEN (IF Head(a).n < Head(b).n THEN 0 - 1 ELSE 1)
    ELSE CompareKeys(Tail(a), Tail(b))

\* a.localeCompare(b, undefined, { numeric: true })
localeCompare(a, b) ==
    LET p == CompareKeys(CollationKey(a), CollationKey(b))
    IN  IF p # 0 THEN p ELSE CompareKeys(CaseKey(a), CaseKey(b))

\* the comparator given to entries.sort
ComparePortName(a, b) == localeCompare(a.portName, b.portName)

RECURSIVE InsertSorted(_, _)
\* e placed behind every element of the sorted sequence that is not after it
InsertSorted(sorted, e) ==
    IF sorted = <<>> THEN <<e>>
    ELSE IF ComparePortName(sorted[Len(sorted)], e) <= 0 THEN Append(sorted, e)
    ELSE Append(InsertSorted(SubSeq(sorted, 1, Len(sorted) - 1), e),
                sorted[Len(sorted)])

RECURSIVE SortFrom(_, _)
SortFrom(entries, sorted) ==
    IF entries = <<>> THEN sorted
    ELSE SortFrom(Tail(entries), InsertSorted(sorted, Head(entries)))

\* entries.sort(comparator): Array.prototype.sort is stable
SortEntries(entries) == SortFrom(entries, <<>>)

\* ---------------------------------------------------------------- joins

PortPrefix == <<"P", "o", "r", "t", " ">>

\* a faulty variant: the name is always the synthesized one
BridgePortNameSynthesized(bp, bpToIf, ifNames) == PortPrefix \o ToDecString(bp)

\* the portName of a bridge entry
BridgePortName(bp, bpToIf, ifNames) ==
    LET key == ToDecString(bp)
        ifIdx == IF HasKey(bpToIf, key) THEN Lookup(bpToIf, key) ELSE 0
        ikey == ToDecString(ifIdx)
        name == IF HasKey(ifNames, ikey) THEN Lookup(ifNames, ikey) ELSE <<>>
    IN  IF ~Falsy(ifIdx) /\ name # <<>> THEN name ELSE PortPrefix \o ToDecString(bp)

\* macToIp[mac] || null
IpOf(macToIp, mac) == IF HasKey(macToIp, mac) THEN Lookup(macToIp, mac) ELSE NoIp

\* the entries of step 1, before sorting
BridgeJoin(fdbOut, qfdbOut, bpOut, ifNameOut, arpOut) ==
    LET macToBp == BuildMacToBp(fdbOut, qfdbOut)
        bpToIf == BuildBpToIf(bpOut, EmptyMap)
        ifNames == BuildIfNames(ifNameOut, EmptyMap)
        macToIp == BuildMacToIp(arpOut, EmptyMap)
    IN  [i \in 1..Len(macToBp) |->
           [mac |-> macToBp[i].k,
            bridgePort |-> macToBp[i].v,
            portName |-> BridgePortName(macToBp[i].v, bpToIf, ifNames),
            ip |-> IpOf(macToIp, macToBp[i].k)]]

\* the sorted entries of step 1
BridgeEntries(fdbOut, qfdbOut, bpOut, ifNameOut, arpOut) ==
    SortEntries(BridgeJoin(fdbOut, qfdbOut, bpOut, ifNameOut, arpOut))

\* a faulty variant: every entry is counted
CountWithIpCountsAll(entries) == Len(entries)

\* entries.filter(e => e.ip).length
CountWithIp(entries) == Cardinality({i \in 1..Len(entries) : entries[i].ip # NoIp})

\* the ClientTableResult object literal of both strategies
MakeResult(entries, source) ==
    [entries |-> entries,
     count |-> Len(entries),
     countWithIp |-> CountWithIp(entries),
     hasMacTable |-> Len(entries) > 0,
     source |-> source]

WlanPrefix == <<"W", "L", "A", "N">>

BandSuffix(band) ==
    IF band = Null \/ Falsy(band) THEN <<>>
    ELSE IF band = 1 THEN <<" ", "(", "2", ".", "4", "G", ")">>
    ELSE IF band = 2 THEN <<" ", "(", "5", "G", ")">>
    ELSE <<>>

ChannelSuffix(channel) ==
    IF channel = Null \/ Falsy(channel) THEN <<>>
    ELSE <<" ", "C", "H">> \o ToDecString(channel)

\* the portName of a WLAN client entry
WlanPortName(c, macToSsid) ==
    LET ssid == IF HasKey(macToSsid, c.mac) THEN Lookup(macToSsid, c.mac) ELSE <<>>
        base == IF ssid # <<>> THEN WlanPrefix \o <<":", " ">> \o ssid ELSE WlanPrefix
    IN  base \o BandSuffix(c.band) \o ChannelSuffix(c.channel)

WlanJoin(clientOut, ssidOut, arpOut) ==
    LET macToIp == BuildMacToIp(arpOut, EmptyMap)
        macToSsid == BuildMacToSsid(ssidOut, EmptyMap)
        clients == BuildClients(clientOut, EmptyMap)
    IN  [i \in 1..Len(clients) |->
           [mac |-> clients[i].v.mac,
            bridgePort |-> 0,
            portName |-> WlanPortName(clients[i].v, macToSsid),
            ip |-> IpOf(macToIp, clients[i].v.mac)]]

\* a faulty variant: no client found is reported as a failure
WlanResultFailsWhenEmpty(clientOut, ssidOut, arpOut) ==
    IF WlanJoin(clientOut, ssidOut, arpOut) = <<>>
    THEN [error |-> "no clients", source |-> "none"]
    ELSE MakeResult(SortEntries(WlanJoin(clientOut, ssidOut, arpOut)), "wlan-clients")

\* the result of snmpLancomWlanClients, given the texts of its three walks
WlanResult(clientOut, ssidOut, arpOut) ==
    MakeResult(SortEntries(WlanJoin(clientOut, ssidOut, arpOut)), "wlan-clients")

\* the result of snmpMacTable when step 1 found entries
BridgeResult(entries) == MakeResult(entries, "bridge")

\* a faulty variant: the fallback is also taken for a single entry
NeedsWlanFallbackAtMostOne(entries) == Len(entries) <= 1

\* if (entries.length === 0) return snmpLancomWlanClients(...)
NeedsWlanFallback(entries) == Len(entries) = 0

\* ------------------------------------------------------ walk output lines

\* the decimal text of an OID component
Comp(n) == ToDecString(n)

\* the OID suffix of a MAC address 00:11:22:33:44:xx, last octet n
MacSuffix(n) == <<Comp(0), Comp(17), Comp(34), Comp(51), Comp(68), Comp(n)>>

\* a line  <root>.<suffix> = INTEGER: n
IntLine(root, suffix, n) ==
    [root |-> root, suffix |-> suffix,
     rhs |-> <<" ", "INTEGER:", " ">> \o ToDecString(n)]

\* a line  <root>.<suffix> = STRING: <quoted text>
StrLine(root, suffix, text) ==
    [root |-> root, suffix |-> suffix,
     rhs |-> <<" ", "STRING:", " ", "\"">> \o text \o <<"\"">>]

\* a line  <root>.<suffix> = Hex-STRING: 00 11 22 33 44 xx  with the last
\* octet given by its two hex digits
HexLine(root, suffix, hi, lo) ==
    [root |-> root, suffix |-> suffix,
     rhs |-> <<" ", "Hex-STRING:", " ", "0", "0", " ", "1", "1", " ", "2", "2", " ",
               "3", "3", " ", "4", "4", " ", hi, lo, " ">>]

\* ------------------------------------------------------- request bodies

\* a field the JSON body does not hold
Undefined == <<"undefined">>

\* a field the JSON body holds as null
JsNull == <<"null">>

\* !value for a field that is a string, null or undefined
IsFalsyField(v) == v = Undefined \/ v = JsNull \/ v = <<>>

\* destructuring defaults: community = 'public', version = '2c', type = 'mac-table'
DefaultCommunity == <<"p", "u", "b", "l", "i", "c">>

DefaultVersion == <<"2", "c">>

MacTableType == <<"m", "a", "c", "-", "t", "a", "b", "l", "e">>

TestType == <<"t", "e", "s", "t">>

WithDefault(v, d) == IF v = Undefined THEN d ELSE v

\* a faulty variant: the semicolon passes the host whitelist
IsHostCharWithSemicolon(c) ==
    IsLower(c) \/ IsUpper(c) \/ IsDigit(c) \/ c \in {".", "-", ";"}

\* [a-zA-Z0-9.\-]
IsHostChar(c) == IsLower(c) \/ IsUpper(c) \/ IsDigit(c) \/ c \in {".", "-"}

\* [\w\-@.!#%&*+=]
IsCommunityChar(c) ==
    \/ IsLower(c) \/ IsUpper(c) \/ IsDigit(c)
    \/ c \in {"_", "-", "@", ".", "!", "#", "%", "&", "*", "+", "="}

\* host && /^[a-zA-Z0-9.\-]+$/.test(host)
HostOk(host) ==
    /\ ~IsFalsyField(host)
    /\ \A i \in 1..Len(host) : IsHostChar(host[i])

\* community && /^[\w\-@.!#%&*+=]+$/.test(community)
CommunityOk(community) ==
    /\ ~IsFalsyField(community)
    /\ \A i \in 1..Len(community) : IsCommunityChar(community[i])

\* ['1', '2c'].includes(version)
VersionOk(version) == version \in {<<"1">>, <<"2", "c">>}

\* the three checks of the handler, on the destructured fields
Validated(host, community, version) ==
    HostOk(host) /\ CommunityOk(community) /\ VersionOk(version)

\* version === '1' ? 'snmpwalk' : 'snmpbulkwalk'
WalkCommand(version) == IF version = <<"1">> THEN "snmpwalk" ELSE "snmpbulkwalk"

\* ----------------------------------------------------- connectivity test

\* the text holds the characters STRING: at this token
HoldsStringTag(tok) == tok \in {"STRING:", "Hex-STRING:"}

\* the number of blanks (\s) of s from position p on
BlankRun(s, p) ==
    CHOOSE k \in 0..(Len(s) + 1 - p) :
        /\ \A j \in p..(p + k - 1) : IsSpace(s[j])
        /\ (p + k > Len(s) \/ ~IsSpace(s[p + k]))

\* $ under the m flag, before position p: the end of the text or of a line
AtLineEnd(s, p) == p > Len(s) \/ s[p] = "\n"

\* an optional double quote and blanks lead from position p to $
TailMatches(s, p) ==
    \E q \in 0..1 :
       /\ q = 1 => (p <= Len(s) /\ s[p] = "\"")
       /\ \E b \in 0..BlankRun(s, p + q) : AtLineEnd(s, p + q + b)

\* a faulty variant: only a value between two double quotes matches
TestParsesQuotedOnly(out) ==
    LET n == Len(out)
    IN  UNION { { t \in [i : {i}, a : 0..BlankRun(out, i + 1), q : {1}, g : 1..n] :
                    LET grpAt == t.i + t.a + t.q + 1
                        grpEnd == grpAt + t.g - 1
                    IN  /\ grpEnd < n
                        /\ t.i + t.a + 1 <= n
                        /\ out[t.i + t.a + 1] = "\""
                        /\ \A p \in grpAt..grpEnd : out[p] \notin {"\n", "\""}
                        /\ out[grpEnd + 1] = "\""
                        /\ TailMatches(out, grpEnd + 1) }
                : i \in {i \in 1..n : HoldsStringTag(out[i])} }

(* The ways the pattern of the test,  STRING: blanks, an optional double   *)
(* quote, a greedy group of one or more characters other than newline and  *)
(* double quote, an optional double quote, blanks, $ (m flag), can match:  *)
(*   i  position of the tag                  (leftmost first)              *)
(*   a  blanks taken after the tag           (greedy: more first)          *)
(*   q  1 when the opening quote is taken    (greedy: taken first)         *)
(*   g  length of the captured group         (greedy: longer first)        *)
TestParses(out) ==
    LET n == Len(out)
    IN  UNION { { t \in [i : {i}, a : 0..BlankRun(out, i + 1), q : 0..1, g : 1..n] :
                    LET grpAt == t.i + t.a + t.q + 1
                        grpEnd == grpAt + t.g - 1
                    IN  /\ grpEnd <= n
                        /\ t.q = 1 => out[t.i + t.a + 1] = "\""
                        /\ \A p \in grpAt..grpEnd : out[p] \notin {"\n", "\""}
                        /\ TailMatches(out, grpEnd + 1) }
                : i \in {i \in 1..n : HoldsStringTag(out[i])} }

TestTriedBefore(t, u) ==
    \/ t.i < u.i
    \/ t.i = u.i /\ t.a > u.a
    \/ t.i = u.i /\ t.a = u.a /\ t.q > u.q
    \/ t.i = u.i /\ t.a = u.a /\ t.q = u.q /\ t.g > u.g

\* m[1] of out.match(pattern); defined when TestParses(out) # {}
TestGroup(out) ==
    LET P == TestParses(out)
        t == CHOOSE c \in P : \A u \in P : u = c \/ TestTriedBefore(c, u)
        grpAt == t.i + t.a + t.q + 1
    IN  SubSeq(out, grpAt, grpAt + t.g - 1)

\* the placeholder 'Keine Antwort'
NoAnswer == <<"K", "e", "i", "n", "e", " ", "A", "n", "t", "w", "o", "r", "t">>

\* the length slice(0, 200) keeps
SliceLen == 200

\* s.slice(0, 200)
Slice(s) == IF Len(s) <= SliceLen THEN s ELSE SubSeq(s, 1, SliceLen)

\* { ok: !!m, sysDescr: m ? m[1].trim() : (out.trim().slice(0, 200) || 'Keine Antwort') }
TestResult(out) ==
    IF TestParses(out) # {}
    THEN [ok |-> TRUE, sysDescr |-> Trim(TestGroup(out))]
    ELSE [ok |-> FALSE,
          sysDescr |-> IF Slice(Trim(out)) # <<>> THEN Slice(Trim(out)) ELSE NoAnswer]

\* ============================================================ state machine

VARIABLES
    pc,         \* where the /snmp handler stands: recv, bridge, wlan, test, done, crashed
    input,      \* the request body the handler received
    procs,      \* per walk: the child process, its timer and the walk's promise
    clock,      \* wall-clock time in seconds since the request arrived
    entries1,   \* the entries of step 1, once its walks are joined
    result,     \* the value the resolution returned
    responses,  \* the status codes written with res.writeHead, in order
    spawns,     \* the number of calls of spawn
    arg,        \* the argument of a function applied on its own
    ret,        \* what that function returned
    step        \* whether it has been applied

vars == <<pc, input, procs, clock, entries1, result, responses, spawns, arg, ret, step>>

handlerVars == <<pc, input, procs, clock, entries1, result, responses, spawns>>

pureVars == <<arg, ret, step>>

\* the walks of step 1, of the WLAN fallback and of the connectivity test
BridgeWalks == {"fdb", "qfdb", "bp", "ifName", "arp"}

WlanWalks == {"client", "ssid", "warp"}

TestWalks == {"sysDescr"}

Walks == BridgeWalks \cup WlanWalks \cup TestWalks

\* the kill timer of runSnmpWalk, in seconds (12000 ms)
WalkTimeout == 12

\* the step of the clock
TickLen == 6

\* the most chunks of output a process writes
MaxChunks == 1

\* the lines the device of this model answers a walk with
FdbLine == IntLine("fdb", MacSuffix(1), 2)

QFdbLine == IntLine("qfdb", <<Comp(10)>> \o MacSuffix(1), 3)

ArpLine == HexLine("arp", <<Comp(3), Comp(10), Comp(0), Comp(0), Comp(5)>>, "0", "1")

ClientLine == IntLine("client", <<Comp(2)>> \o MacSuffix(1), 36)

SsidLine == StrLine("ssid", MacSuffix(1), <<"G", "u", "e", "s", "t">>)

SysDescrText == <<"STRING:", " ", "\"", "D", "\"", "\n">>

\* the chunks of output a walk's process may write: one line of its table
\* (this device answers the port-index, the interface-name and the first
\* ARP walk with no binding)
ChunkTable ==
    [w \in Walks |->
       IF w = "fdb" THEN {<<FdbLine>>}
       ELSE IF w = "qfdb" THEN {<<QFdbLine>>}
       ELSE IF w = "warp" THEN {<<ArpLine>>}
       ELSE IF w = "client" THEN {<<ClientLine>>}
       ELSE IF w = "ssid" THEN {<<SsidLine>>}
       ELSE IF w = "sysDescr" THEN {SysDescrText}
       ELSE {}]

Chunks(w) == ChunkTable[w]

\* a walk that has not been started
NoProc ==
    [st |-> "none", out |-> <<>>, chunks |-> 0, timer |-> "unset", deadline |-> 0,
     settled |-> FALSE, value |-> <<>>, end |-> "none"]

\* a faulty variant: the timer is set to twice the time
SpawnedLateTimer(now) ==
    [st |-> "running", out |-> <<>>, chunks |-> 0, timer |-> "armed",
     deadline |-> now + 2 * WalkTimeout, settled |-> FALSE, value |-> <<>>,
     end |-> "none"]

\* runSnmpWalk up to its return: spawn, out = '', the timer armed
Spawned(now) ==
    [st |-> "running", out |-> <<>>, chunks |-> 0, timer |-> "armed",
     deadline |-> now + WalkTimeout, settled |-> FALSE, value |-> <<>>, end |-> "none"]

\* resolve(v): a promise settles once, later calls change nothing
Resolve(p, v) == IF p.settled THEN p ELSE [p EXCEPT !.settled = TRUE, !.value = v]

\* a faulty variant: the timer is left armed
ClearTimeoutForgets(p) == p

\* clearTimeout(timer)
ClearTimeout(p) == IF p.timer = "armed" THEN [p EXCEPT !.timer = "cleared"] ELSE p

\* a faulty variant: close resolves with the empty text unless the exit was clean
OnCloseDropsOutput(p) ==
    Resolve(ClearTimeout(p), IF p.end = "exit0" THEN p.out ELSE <<>>)

\* proc.on('close', () => { clearTimeout(timer); resolve(out); })
OnClose(p) == Resolve(ClearTimeout(p), p.out)

\* proc.on('error', () => { clearTimeout(timer); resolve(''); })
OnError(p) == Resolve(ClearTimeout(p), <<>>)

\* a faulty variant: the first settled walk resumes the caller
AnySettled(batch) == \E w \in batch : procs[w].settled

\* Promise.all of a batch has resolved
AllSettled(batch) == \A w \in batch : procs[w].settled

\* the bodies a request may carry
Body(host, community, version, type) ==
    [kind |-> "object", host |-> host, community |-> community,
     version |-> version, type |-> type]

GoodHost == <<"a", ".", "1">>

Bodies ==
    { [kind |-> "badjson"], [kind |-> "null"] }
    \cup { Body(h, Undefined, Undefined, Undefined) :
             h \in {Undefined, JsNull, <<>>, GoodHost, <<"a", ";", "b">>, <<"a", " ">>,
                    <<"$", "(", "x", ")">>} }
    \cup { Body(GoodHost, c, Undefined, t) :
             c \in {JsNull, <<>>, <<"p", "!">>, <<"p", " ", "q">>, <<"'", "x">>},
             t \in {TestType, <<"x">>} }
    \cup { Body(<<"-", "f">>, Undefined, v, t) :
             v \in {<<"1">>, <<"2", "c">>, <<"3">>, <<>>, JsNull},
             t \in {TestType, <<"x">>, JsNull} }
    \cup { Body(<<"a", ";">>, <<"p", " ">>, <<"3">>, t) :
             t \in {Undefined, TestType, <<"x">>} }

NoInput == [kind |-> "none"]

Init ==
    /\ pc = "recv"
    /\ input = NoInput
    /\ procs = [w \in Walks |-> NoProc]
    /\ clock = 0
    /\ entries1 = <<>>
    /\ result = [source |-> "none"]
    /\ responses = <<>>
    /\ spawns = 0
    /\ arg = <<>>
    /\ ret = <<>>
    /\ step = "off"

\* the batch of walks a call starts, all spawned before the first await; the
\* processes and promises of an earlier batch are no longer referenced
StartBatch(batch) ==
    /\ procs' = [w \in Walks |-> IF w \in batch THEN Spawned(clock) ELSE NoProc]
    /\ spawns' = spawns + Cardinality(batch)

\* res.writeHead(status, ...); res.end(...)
Respond(status) == responses' = Append(responses, status)

\* req.on('end'): the handler up to its first await, or to its response
Receive(body) ==
    /\ pc = "recv"
    /\ input' = body
    /\ UNCHANGED <<clock, entries1, result, pureVars>>
    /\ IF body.kind = "badjson"
       THEN Respond(400) /\ pc' = "done" /\ UNCHANGED <<procs, spawns>>
       ELSE IF body.kind = "null"
       THEN \* destructuring null throws outside the try block
            pc' = "crashed" /\ UNCHANGED <<procs, spawns, responses>>
       ELSE LET host == body.host
                community == WithDefault(body.community, DefaultCommunity)
                version == WithDefault(body.version, DefaultVersion)
                type == WithDefault(body.type, MacTableType)
            IN  IF ~Validated(host, community, version)
                THEN Respond(400) /\ pc' = "done" /\ UNCHANGED <<procs, spawns>>
                ELSE IF type = MacTableType
                THEN StartBatch(BridgeWalks) /\ pc' = "bridge" /\ UNCHANGED responses
                ELSE IF type = TestType
                THEN StartBatch(TestWalks) /\ pc' = "test" /\ UNCHANGED responses
                ELSE Respond(400) /\ pc' = "done" /\ UNCHANGED <<procs, spawns>>

Awaiting == pc \in {"bridge", "wlan", "test"}

\* proc.stdout.on('data', d => (out += d))
ProcData(w) ==
    /\ procs[w].st = "running"
    /\ procs[w].chunks < MaxChunks
    /\ \E d \in Chunks(w) :
         procs' = [procs EXCEPT ![w].out = @ \o d, ![w].chunks = @ + 1]
    /\ UNCHANGED <<pc, input, clock, entries1, result, responses, spawns, pureVars>>

\* the process ends by itself with an exit code; 'close' is emitted
ProcExit(w) ==
    /\ procs[w].st = "running"
    /\ \E e \in {"exit0", "exitNonZero"} :
         procs' = [procs EXCEPT ![w] = OnClose([@ EXCEPT !.st = "closed", !.end = e])]
    /\ UNCHANGED <<pc, input, clock, entries1, result, responses, spawns, pureVars>>

\* the process could not be spawned; 'error' is emitted
ProcSpawnError(w) ==
    /\ procs[w].st = "running"
    /\ procs[w].chunks = 0
    /\ procs[w].deadline = clock + WalkTimeout
    /\ procs' = [procs EXCEPT ![w] = OnError([@ EXCEPT !.st = "errored", !.end = "spawnError"])]
    /\ UNCHANGED <<pc, input, clock, entries1, result, responses, spawns, pureVars>>

\* 'close' follows 'error' for a process that could not be spawned
ProcErrorClose(w) ==
    /\ procs[w].st = "errored"
    /\ procs' = [procs EXCEPT ![w] = OnClose([@ EXCEPT !.st = "closed"])]
    /\ UNCHANGED <<pc, input, clock, entries1, result, responses, spawns, pureVars>>

\* a faulty variant: the timer of one walk kills every running process
TimerFireKillsBatch(w) ==
    /\ procs[w].timer = "armed"
    /\ clock >= procs[w].deadline
    /\ procs' = [v \in Walks |->
                   IF procs[v].st = "running"
                   THEN [procs[v] EXCEPT !.timer = "fired", !.st = "killed", !.end = "killed"]
                   ELSE IF v = w THEN [procs[v] EXCEPT !.timer = "fired"]
                   ELSE procs[v]]
    /\ UNCHANGED <<pc, input, clock, entries1, result, responses, spawns, pureVars>>

\* setTimeout(() => { try { proc.kill(); } catch {} }, 12000)
TimerFire(w) ==
    /\ procs[w].timer = "armed"
    /\ clock >= procs[w].deadline
    /\ procs' = [procs EXCEPT ![w].timer = "fired",
                              ![w].st = IF @ = "running" THEN "killed" ELSE @,
                              ![w].end = IF procs[w].st = "running" THEN "killed" ELSE @]
    /\ UNCHANGED <<pc, input, clock, entries1, result, responses, spawns, pureVars>>

\* the killed process ends; 'close' is emitted
ProcKilledClose(w) ==
    /\ procs[w].st = "killed"
    /\ procs' = [procs EXCEPT ![w] = OnClose([@ EXCEPT !.st = "closed"])]
    /\ UNCHANGED <<pc, input, clock, entries1, result, responses, spawns, pureVars>>

\* the deadlines of the timers still armed
Deadlines == {procs[w].deadline : w \in {v \in Walks : procs[v].timer = "armed"}}

\* something the event loop runs before time passes: a due timer, the close
\* of a killed process, the continuation of a resolved await
Urgent ==
    \/ \E w \in Walks : procs[w].timer = "armed" /\ clock >= procs[w].deadline
    \/ \E w \in Walks : procs[w].st \in {"killed", "errored"}
    \/ pc = "bridge" /\ AllSettled(BridgeWalks)
    \/ pc = "wlan" /\ AllSettled(WlanWalks)
    \/ pc = "test" /\ AllSettled(TestWalks)

Min(a, b) == IF a <= b THEN a ELSE b

\* time passes, up to the next timer
Tick ==
    /\ Awaiting
    /\ ~Urgent
    /\ Deadlines # {}
    /\ clock' = Min(clock + TickLen, CHOOSE d \in Deadlines : \A e \in Deadlines : d <= e)
    /\ UNCHANGED <<pc, input, procs, entries1, result, responses, spawns, pureVars>>

\* snmpMacTable after its await: the join of step 1 and the choice of the fallback
AwaitBridge ==
    /\ pc = "bridge"
    /\ AllSettled(BridgeWalks)
    /\ LET entries == BridgeEntries(procs["fdb"].value, procs["qfdb"].value,
                                    procs["bp"].value, procs["ifName"].value,
                                    procs["arp"].value)
       IN  /\ entries1' = entries
           /\ IF NeedsWlanFallback(entries)
              THEN /\ StartBatch(WlanWalks)
                   /\ pc' = "wlan"
                   /\ UNCHANGED <<result, responses>>
              ELSE /\ result' = BridgeResult(entries)
                   /\ Respond(200)
                   /\ pc' = "done"
                   /\ UNCHANGED <<procs, spawns>>
    /\ UNCHANGED <<input, clock, pureVars>>

\* snmpLancomWlanClients after its await, and the handler's response
AwaitWlan ==
    /\ pc = "wlan"
    /\ AllSettled(WlanWalks)
    /\ result' = WlanResult(procs["client"].value, procs["ssid"].value,
                            procs["warp"].value)
    /\ Respond(200)
    /\ pc' = "done"
    /\ UNCHANGED <<input, procs, clock, entries1, spawns, pureVars>>

\* the connectivity test after its await, and the handler's response
AwaitTest ==
    /\ pc = "test"
    /\ AllSettled(TestWalks)
    /\ result' = TestResult(procs["sysDescr"].value)
    /\ Respond(200)
    /\ pc' = "done"
    /\ UNCHANGED <<input, procs, clock, entries1, spawns, pureVars>>

Next ==
    \/ \E b \in Bodies : Receive(b)
    \/ \E w \in Walks : ProcData(w)
    \/ \E w \in Walks : ProcExit(w)
    \/ \E w \in Walks : ProcSpawnError(w)
    \/ \E w \in Walks : ProcErrorClose(w)
    \/ \E w \in Walks : TimerFire(w)
    \/ \E w \in Walks : ProcKilledClose(w)
    \/ Tick
    \/ AwaitBridge
    \/ AwaitWlan
    \/ AwaitTest

Spec == Init /\ [][Next]_vars

\* ================================================= the resolver on its own

(* snmpMacTable as a function of the texts its walks resolved with: step 1 *)
(* joins the five texts of arg, and the WLAN fallback, when taken, joins   *)
(* three more texts.                                                       *)

\* all sequences over S of length at most n
SeqsUpTo(S, n) == UNION { [1..k -> S] : k \in 0..n }

\* the most lines of a Q-Bridge walk text
MaxQLines == 2

\* the most lines of a client-table walk text
MaxClientLines == 2

\* a classic Bridge-MIB line whose suffix ends in the given components
FdbTail(c5, c6, port) ==
    IntLine("fdb", <<Comp(0), Comp(17), Comp(34), Comp(51), c5, c6>>, port)

FdbTexts ==
    { <<>>,
      <<IntLine("fdb", MacSuffix(1), 2)>>,
      <<IntLine("fdb", MacSuffix(2), 10), IntLine("fdb", MacSuffix(1), 2)>>,
      <<IntLine("fdb", MacSuffix(1), 2), IntLine("fdb", MacSuffix(1), 7)>>,
      \* five components only, and a line that is no INTEGER binding
      <<IntLine("fdb", Tail(MacSuffix(1)), 4), StrLine("fdb", MacSuffix(1), <<"x">>)>>,
      \* a component above 255
      <<FdbTail(Comp(68), Comp(256), 3)>>,
      \* an empty component: the suffix text ends in two dots and a 9
      <<FdbTail(<<>>, Comp(9), 3)>> }

QFdbLines ==
    { IntLine("qfdb", <<Comp(10)>> \o MacSuffix(1), 0),
      IntLine("qfdb", <<Comp(10)>> \o MacSuffix(1), 3),
      IntLine("qfdb", <<Comp(20)>> \o MacSuffix(1), 7),
      IntLine("qfdb", <<Comp(20)>> \o MacSuffix(2), 10) }

QFdbTexts == SeqsUpTo(QFdbLines, MaxQLines)

BpTexts ==
    { <<>>,
      <<IntLine("bp", <<Comp(2)>>, 5), IntLine("bp", <<Comp(10)>>, 6),
        IntLine("bp", <<Comp(3)>>, 0), IntLine("bp", <<Comp(7)>>, 9)>> }

IfNameTexts ==
    { <<>>,
      <<StrLine("ifName", <<Comp(5)>>, <<"e", "t", "h", "1", "0">>),
        StrLine("ifName", <<Comp(6)>>, <<"e", "t", "h", "2">>),
        StrLine("ifName", <<Comp(0)>>, <<"l", "o">>)>>,
      <<[root |-> "ifName", suffix |-> <<Comp(5)>>,
         rhs |-> <<" ", "L", "A", "N", "-", "1", " ">>],
        StrLine("ifName", <<Comp(6)>>, <<>>)>> }

IpSuffix == <<Comp(3), Comp(10), Comp(0), Comp(0), Comp(5)>>

ArpTexts ==
    { <<>>,
      <<HexLine("arp", IpSuffix, "0", "1")>>,
      <<HexLine("arp", IpSuffix, "0", "2"),
        \* three components only after the interface index
        HexLine("arp", Tail(IpSuffix), "0", "1")>> }

ClientLines ==
    { IntLine("client", <<Comp(2)>> \o MacSuffix(1), 36),
      IntLine("client", <<Comp(3)>> \o MacSuffix(1), 2),
      IntLine("client", <<Comp(3)>> \o MacSuffix(2), 1),
      IntLine("client", <<Comp(2)>> \o MacSuffix(2), 0),
      IntLine("client", <<Comp(3)>> \o MacSuffix(1), 5) }

ClientTexts == SeqsUpTo(ClientLines, MaxClientLines)

SsidTexts ==
    { <<>>,
      <<StrLine("ssid", MacSuffix(1), <<"G", "u", "e", "s", "t">>)>> }

ResolveInputs ==
    [fdb : FdbTexts, qfdb : QFdbTexts, bp : BpTexts, ifName : IfNameTexts,
     arp : ArpTexts, client : {<<>>}, ssid : {<<>>}, warp : {<<>>}]

\* the texts of step 1 are dead once the fallback is entered
NoTexts ==
    [fdb |-> <<>>, qfdb |-> <<>>, bp |-> <<>>, ifName |-> <<>>, arp |-> <<>>,
     client |-> <<>>, ssid |-> <<>>, warp |-> <<>>]

\* the handler does not run in the specifications of single functions
HandlerOff ==
    /\ pc = "off"
    /\ input = NoInput
    /\ procs = [w \in Walks |-> NoProc]
    /\ clock = 0
    /\ entries1 = <<>>
    /\ result = [source |-> "none"]
    /\ responses = <<>>
    /\ spawns = 0

InitResolve ==
    /\ HandlerOff
    /\ arg \in ResolveInputs
    /\ ret = [source |-> "none"]
    /\ step = "bridge"

\* step 1 of snmpMacTable on the texts of arg
ResolveBridge ==
    /\ step = "bridge"
    /\ LET entries == BridgeEntries(arg.fdb, arg.qfdb, arg.bp, arg.ifName, arg.arp)
       IN  IF NeedsWlanFallback(entries)
           THEN step' = "wlan" /\ arg' = NoTexts /\ UNCHANGED ret
           ELSE step' = "done" /\ ret' = BridgeResult(entries) /\ UNCHANGED arg
    /\ UNCHANGED handlerVars

\* the WLAN fallback on the texts its three walks resolved with
ResolveWlan(clientOut, ssidOut, arpOut) ==
    /\ step = "wlan"
    /\ arg' = [NoTexts EXCEPT !.client = clientOut, !.ssid = ssidOut, !.warp = arpOut]
    /\ ret' = WlanResult(clientOut, ssidOut, arpOut)
    /\ step' = "done"
    /\ UNCHANGED handlerVars

NextResolve ==
    \/ ResolveBridge
    \/ \E c \in ClientTexts, s \in SsidTexts, a \in ArpTexts : ResolveWlan(c, s, a)

SpecResolve == InitResolve /\ [][NextResolve]_vars

\* ========================================= the connectivity test on its own

\* the most characters of a short sysDescr walk text
MaxTestLen == 4

TestAlphabet == {"STRING:", " ", "\n", "\"", "D"}

\* n times the character c
Repeat(c, n) == [i \in 1..n |-> c]

\* texts longer than the slice of the test
LongTexts ==
    { Repeat("D", SliceLen + 1),
      <<" ">> \o Repeat("D", SliceLen + 1),
      <<"\"">> \o Repeat("D", SliceLen + 2),
      <<"STRING:", " ", "\"">> \o Repeat("D", SliceLen + 1) \o <<"\"", "\n">> }

TestTexts == SeqsUpTo(TestAlphabet, MaxTestLen) \cup LongTexts

InitTest ==
    /\ HandlerOff
    /\ arg \in TestTexts
    /\ ret = [ok |-> FALSE, sysDescr |-> <<>>]
    /\ step = "test"

\* the parse of the connectivity test on the text of arg
ApplyTest ==
    /\ step = "test"
    /\ ret' = TestResult(arg)
    /\ step' = "done"
    /\ UNCHANGED <<arg, handlerVars>>

NextTest == ApplyTest

SpecTest == InitTest /\ [][NextTest]_vars

\* ================================== a batch of walks and its Promise.all

(* One call of snmpMacTable whose walks write fixed texts, line by line,   *)
(* and close in any order. arg holds the text of every walk; ret holds     *)
(* how many lines each walk of the current batch has written (got), the    *)
(* walks in the order they resolved (order), the array Promise.all fills   *)
(* (values) and the result returned (out).                                 *)

\* the calls of runSnmpWalk in the array given to Promise.all, in order
BridgeBatch == <<"fdb", "qfdb", "bp", "ifName", "arp">>

WlanBatch == <<"client", "ssid", "warp">>

\* the elements of a sequence
Range(f) == {f[i] : i \in DOMAIN f}

\* the index of walk w in the array of its batch
IndexIn(batch, w) == CHOOSE i \in 1..Len(batch) : batch[i] = w

\* a faulty variant: the values are gathered in the order of resolution
GatherSlotByArrival(batch, order, w) == Len(order) + 1

\* Promise.all puts the value of a promise at the index of the promise
GatherSlot(batch, order, w) == IndexIn(batch, w)

\* the state of a batch right after its walks were started
BatchStarted(batch) ==
    [got |-> [w \in Range(batch) |-> 0],
     order |-> <<>>,
     values |-> [i \in 1..Len(batch) |-> <<>>],
     out |-> [source |-> "none"]]

OrderInputs ==
    [fdb : {<<>>, <<IntLine("fdb", MacSuffix(1), 2)>>},
     qfdb : {<<>>, <<QFdbLine>>},
     bp : {<<IntLine("bp", <<Comp(2)>>, 5)>>},
     ifName : {<<StrLine("ifName", <<Comp(5)>>, <<"e", "t", "h", "1">>)>>},
     arp : {<<HexLine("arp", IpSuffix, "0", "1")>>},
     client : {<<ClientLine>>},
     ssid : {<<SsidLine>>},
     warp : {<<>>, <<ArpLine>>}]

InitOrder ==
    /\ HandlerOff
    /\ arg \in OrderInputs
    /\ ret = BatchStarted(BridgeBatch)
    /\ step = "bridge"

\* the batch of the step
BatchOf(s) == IF s = "bridge" THEN BridgeBatch ELSE WlanBatch

\* proc.stdout.on('data'): walk w writes its next line
EmitLine(w) ==
    /\ step \in {"bridge", "wlan"}
    /\ w \in Range(BatchOf(step)) \ Range(ret.order)
    /\ ret.got[w] < Len(arg[w])
    /\ ret' = [ret EXCEPT !.got[w] = @ + 1]
    /\ UNCHANGED <<arg, step, handlerVars>>

\* proc.on('close'): walk w has written its text and resolves with it
CloseWalk(w) ==
    /\ step \in {"bridge", "wlan"}
    /\ w \in Range(BatchOf(step)) \ Range(ret.order)
    /\ ret.got[w] = Len(arg[w])
    /\ ret' = [ret EXCEPT
                 !.values[GatherSlot(BatchOf(step), ret.order, w)] =
                     SubSeq(arg[w], 1, ret.got[w]),
                 !.order = Append(@, w)]
    /\ UNCHANGED <<arg, step, handlerVars>>

\* snmpMacTable after await Promise.all: destructuring, join, fallback
JoinBridge ==
    /\ step = "bridge"
    /\ Len(ret.order) = Len(BridgeBatch)
    /\ LET entries == BridgeEntries(ret.values[1], ret.values[2], ret.values[3],
                                    ret.values[4], ret.values[5])
       IN  IF NeedsWlanFallback(entries)
           THEN step' = "wlan" /\ ret' = BatchStarted(WlanBatch)
           ELSE step' = "done" /\ ret' = [ret EXCEPT !.out = BridgeResult(entries)]
    /\ UNCHANGED <<arg, handlerVars>>

\* snmpLancomWlanClients after await Promise.all
JoinWlan ==
    /\ step = "wlan"
    /\ Len(ret.order) = Len(WlanBatch)
    /\ ret' = [ret EXCEPT !.out = WlanResult(ret.values[1], ret.values[2], ret.values[3])]
    /\ step' = "done"
    /\ UNCHANGED <<arg, handlerVars>>

NextOrder ==
    \/ \E w \in Walks : EmitLine(w)
    \/ \E w \in Walks : CloseWalk(w)
    \/ JoinBridge
    \/ JoinWlan

SpecOrder == InitOrder /\ [][NextOrder]_vars

\* ============================================ two requests at the same time

(* Two calls of snmpMacTable whose walks are interleaved at will. arg      *)
(* holds the texts of each request; ret holds the output buffers of the    *)
(* walks (bufs), how many lines each walk has written (got), the walks of  *)
(* the current batch that have resolved (closed), the texts they resolved  *)
(* with (values) and the result of each request (out).                     *)

Requests == {1, 2}

\* a faulty variant: the walks of all requests collect into the same buffers
OutBufferShared(r, w) == <<1, w>>

\* let out = '' : every call of runSnmpWalk has a buffer of its own
OutBufferOf(r, w) == <<r, w>>

\* a switch that answers the Bridge-MIB walks, and an access point that
\* answers only the WLAN walks
PairTexts ==
    { [fdb |-> <<FdbLine>>, qfdb |-> <<>>, bp |-> <<>>, ifName |-> <<>>,
       arp |-> <<HexLine("arp", IpSuffix, "0", "1")>>,
       client |-> <<>>, ssid |-> <<>>, warp |-> <<>>],
      [fdb |-> <<>>, qfdb |-> <<>>, bp |-> <<>>, ifName |-> <<>>, arp |-> <<>>,
       client |-> <<ClientLine>>, ssid |-> <<SsidLine>>, warp |-> <<>>] }

InitPair ==
    /\ HandlerOff
    /\ arg \in [Requests -> PairTexts]
    /\ ret = [bufs |-> [k \in Requests \X Walks |-> <<>>],
              got |-> [r \in Requests |-> [w \in Walks |-> 0]],
              closed |-> [r \in Requests |-> {}],
              values |-> [r \in Requests |-> [w \in Walks |-> <<>>]],
              out |-> [r \in Requests |-> [source |-> "none"]]]
    /\ step = [r \in Requests |-> "bridge"]

\* proc.stdout.on('data'): walk w of request r writes its next line
PairEmit(r, w) ==
    /\ step[r] \in {"bridge", "wlan"}
    /\ w \in Range(BatchOf(step[r])) \ ret.closed[r]
    /\ ret.got[r][w] < Len(arg[r][w])
    /\ ret' = [ret EXCEPT !.bufs[OutBufferOf(r, w)] = Append(@, arg[r][w][ret.got[r][w] + 1]),
                          !.got[r][w] = @ + 1]
    /\ UNCHANGED <<arg, step, handlerVars>>

\* proc.on('close'): walk w of request r resolves with its buffer
PairClose(r, w) ==
    /\ step[r] \in {"bridge", "wlan"}
    /\ w \in Range(BatchOf(step[r])) \ ret.closed[r]
    /\ ret.got[r][w] = Len(arg[r][w])
    /\ ret' = [ret EXCEPT !.values[r][w] = ret.bufs[OutBufferOf(r, w)],
                          !.closed[r] = @ \cup {w}]
    /\ UNCHANGED <<arg, step, handlerVars>>

\* snmpMacTable of request r after await Promise.all
PairJoinBridge(r) ==
    /\ step[r] = "bridge"
    /\ ret.closed[r] = Range(BridgeBatch)
    /\ LET v == ret.values[r]
           entries == BridgeEntries(v.fdb, v.qfdb, v.bp, v.ifName, v.arp)
       IN  IF NeedsWlanFallback(entries)
           THEN /\ step' = [step EXCEPT ![r] = "wlan"]
                /\ ret' = [ret EXCEPT !.closed[r] = {}]
           ELSE /\ step' = [step EXCEPT ![r] = "done"]
                /\ ret' = [ret EXCEPT !.out[r] = BridgeResult(entries)]
    /\ UNCHANGED <<arg, handlerVars>>

\* snmpLancomWlanClients of request r after await Promise.all
PairJoinWlan(r) ==
    /\ step[r] = "wlan"
    /\ ret.closed[r] = Range(WlanBatch)
    /\ ret' = [ret EXCEPT !.out[r] = WlanResult(ret.values[r].client, ret.values[r].ssid,
                                               ret.values[r].warp)]
    /\ step' = [step EXCEPT ![r] = "done"]
    /\ UNCHANGED <<arg, handlerVars>>

NextPair ==
    \/ \E r \in Requests, w \in Walks : PairEmit(r, w)
    \/ \E r \in Requests, w \in Walks : PairClose(r, w)
    \/ \E r \in Requests : PairJoinBridge(r)
    \/ \E r \in Requests : PairJoinWlan(r)

SpecPair == InitPair /\ [][NextPair]_vars

\* ================================================================ properties

\* the request asks for the MAC table and passed the checks of the handler
MacTableRequest ==
    /\ input.kind = "object"
    /\ Validated(input.host, WithDefault(input.community, DefaultCommunity),
                 WithDefault(input.version, DefaultVersion))
    /\ WithDefault(input.type, MacTableType) = MacTableType

\* step 1 has been joined
BridgeJoined == MacTableRequest /\ (pc = "wlan" \/ (pc = "done" /\ responses = <<200>>))

\* a walk of the WLAN fallback has been started
WlanStarted == \E w \in WlanWalks : procs[w].st # "none"

\* C1: the WLAN fallback is started exactly when the join of step 1 gave no
\* entry; with at least one entry the resolution ends with source bridge, five
\* spawns in all and no WLAN walk; no WLAN walk runs before step 1 is joined.
C1_FallbackIffBridgeEmpty ==
    /\ BridgeJoined => (WlanStarted <=> Len(entries1) = 0)
    /\ BridgeJoined => (spawns > Cardinality(BridgeWalks) <=> Len(entries1) = 0)
    /\ (BridgeJoined /\ Len(entries1) > 0) =>
          /\ pc = "done"
          /\ result.source = "bridge"
          /\ result.entries = entries1
    /\ ~BridgeJoined => ~WlanStarted

\* step 1 ended the resolution with the entry the Q-Bridge walk gave
C1_BridgeEndsResolution ==
    /\ BridgeJoined
    /\ pc = "done"
    /\ Len(entries1) = 1
    /\ procs["fdb"].value = <<>>
    /\ procs["qfdb"].value # <<>>
    /\ ~WlanStarted

\* the ways a process can end that the walk executor should degrade
FailedEnds == {"spawnError", "exitNonZero", "killed"}

\* C2 as stated: a walk whose process failed to spawn, exited with a non-zero
\* code or was killed by the timer resolves with the empty text, whatever the
\* process wrote before.
C2_FailureGivesEmptyText ==
    \A w \in Walks :
       (procs[w].settled /\ procs[w].end \in FailedEnds) => procs[w].value = <<>>

\* C2 as the code has it: a walk settles when its process closes or fails to
\* spawn, and always with a text: the empty text when the process could not be
\* spawned, otherwise all the output the process wrote until it closed, also
\* after a non-zero exit or a kill by the timer.
C2_ResolvesWithCollectedOutput ==
    \A w \in Walks :
       /\ procs[w].st \in {"closed", "errored"} => procs[w].settled
       /\ procs[w].settled => procs[w].st \in {"closed", "errored"}
       /\ (procs[w].settled /\ procs[w].end = "spawnError") => procs[w].value = <<>>
       /\ (procs[w].settled /\ procs[w].end \in {"exit0", "exitNonZero", "killed"}) =>
             /\ procs[w].value = procs[w].out
             /\ (procs[w].chunks = 0 <=> procs[w].value = <<>>)

\* a walk killed by the timer resolved with the output written before the kill
C2_KilledWithOutput ==
    \E w \in Walks :
       /\ procs[w].settled
       /\ procs[w].end = "killed"
       /\ procs[w].value # <<>>

\* the characters of the host whitelist and of the community whitelist
HostAlphabet ==
    {LowerLetters[i] : i \in 1..26} \cup {UpperLetters[i] : i \in 1..26}
    \cup {DigitChars[i] : i \in 1..10} \cup {".", "-"}

CommunityAlphabet ==
    {LowerLetters[i] : i \in 1..26} \cup {UpperLetters[i] : i \in 1..26}
    \cup {DigitChars[i] : i \in 1..10}
    \cup {"_", "-", "@", ".", "!", "#", "%", "&", "*", "+", "="}

\* s is a string, not empty, of characters of A
NonEmptyOver(s, A) ==
    /\ s \notin {Undefined, JsNull, <<>>}
    /\ \A i \in 1..Len(s) : s[i] \in A

\* the request passes the three checks and names a known type
Acceptable(body) ==
    /\ NonEmptyOver(body.host, HostAlphabet)
    /\ \/ body.community = Undefined
       \/ NonEmptyOver(body.community, CommunityAlphabet)
    /\ body.version \in {Undefined, <<"1">>, <<"2", "c">>}
    /\ body.type \in {Undefined, MacTableType, TestType}

\* C3: a process is spawned only for a request whose host and community are
\* within their whitelists and whose version is 1 or 2c; a request that fails
\* a check or names an unknown type gets one 400 response and no spawn.
C3_SpawnOnlyAfterValidation ==
    /\ spawns > 0 => (input.kind = "object" /\ Acceptable(input))
    /\ (\E w \in Walks : procs[w].st # "none") =>
          (input.kind = "object" /\ Acceptable(input))
    /\ (input.kind = "object" /\ ~Acceptable(input)) =>
          /\ responses = <<400>>
          /\ spawns = 0
          /\ pc = "done"

\* a host with a semicolon was refused without a spawn
C3_RejectedHost ==
    /\ input.kind = "object"
    /\ input.host = <<"a", ";", "b">>
    /\ responses = <<400>>
    /\ spawns = 0

\* C4 as stated: a MAC-table resolution is never blocked beyond 12 seconds
\* from its start, also when it goes through the WLAN fallback.
C4_ResolutionWithinOneTimeout ==
    (MacTableRequest /\ pc \in {"bridge", "wlan", "done"}) => clock <= WalkTimeout

\* C4 as the code has it: every batch of walks is joined within 12 seconds of
\* its start, so a resolution that ends in step 1 takes at most 12 seconds
\* and one that goes through the WLAN fallback at most 24; a walk killed by
\* the timer settles at its deadline with the output written before the kill.
C4_EachBatchWithinTimeout ==
    /\ \A w \in Walks :
          /\ procs[w].st # "none" => clock <= procs[w].deadline
          /\ (procs[w].st # "none" /\ clock = procs[w].deadline /\ ~Urgent) =>
                procs[w].settled
          /\ procs[w].end = "killed" => clock = procs[w].deadline
          /\ (procs[w].settled /\ procs[w].end = "killed") =>
                procs[w].value = procs[w].out
    /\ (MacTableRequest /\ pc = "bridge") => clock <= WalkTimeout
    /\ (BridgeJoined /\ Len(entries1) > 0) => clock <= WalkTimeout
    /\ (MacTableRequest /\ pc \in {"wlan", "done"}) => clock <= 2 * WalkTimeout
    /\ pc = "test" => clock <= WalkTimeout

\* a resolution whose walks hung in both batches ended after 24 seconds
C4_BothBatchesTimedOut ==
    /\ MacTableRequest
    /\ pc = "done"
    /\ clock = 2 * WalkTimeout
    /\ \A w \in WlanWalks : procs[w].end = "killed"
    /\ responses = <<200>>

\* the result of a resolution that found nothing
EmptyWlanResult ==
    [entries |-> <<>>, count |-> 0, countWithIp |-> 0, hasMacTable |-> FALSE,
     source |-> "wlan-clients"]

\* C6: when step 1 and the WLAN fallback both find no entry, the resolution
\* returns the empty result of the WLAN strategy and the request is answered
\* with status 200; in particular when every walk failed or timed out.
C6_NothingFoundIsSuccess ==
    /\ (MacTableRequest /\ pc = "done" /\ Len(entries1) = 0
          /\ procs["client"].value = <<>>) =>
          /\ result = EmptyWlanResult
          /\ responses = <<200>>
    /\ (MacTableRequest /\ pc = "done"
          /\ \A w \in WlanWalks : procs[w].end \in FailedEnds /\ procs[w].value = <<>>) =>
          /\ result = EmptyWlanResult
          /\ responses = <<200>>
    /\ (MacTableRequest /\ pc = "wlan" /\ AllSettled(WlanWalks)
          /\ procs["client"].value = <<>>) =>
          WlanResult(procs["client"].value, procs["ssid"].value,
                     procs["warp"].value) = EmptyWlanResult
    /\ 502 \notin {responses[i] : i \in 1..Len(responses)}

\* every walk of the fallback was killed by the timer and the request succeeded
C6_AllWalksTimedOut ==
    /\ MacTableRequest
    /\ pc = "done"
    /\ \A w \in WlanWalks : procs[w].end = "killed" /\ procs[w].value = <<>>
    /\ result = EmptyWlanResult
    /\ responses = <<200>>

RECURSIVE NumberWithIp(_)
\* how many of the entries carry an ip
NumberWithIp(entries) ==
    IF entries = <<>> THEN 0
    ELSE (IF Head(entries).ip = NoIp THEN 0 ELSE 1) + NumberWithIp(Tail(entries))

\* C5: in the result of either strategy count is the number of entries,
\* hasMacTable says that there is at least one entry, and countWithIp is the
\* number of entries whose ip is not null, so never more than count.
C5_CountsMatchEntries ==
    step = "done" =>
       /\ ret.source \in {"bridge", "wlan-clients"}
       /\ ret.count = Len(ret.entries)
       /\ ret.hasMacTable = (Len(ret.entries) > 0)
       /\ ret.countWithIp = NumberWithIp(ret.entries)
       /\ ret.countWithIp <= ret.count

\* a bridge result of two entries of which one has an ip
C5_OneOfTwoHasIp ==
    /\ step = "done"
    /\ ret.source = "bridge"
    /\ ret.count = 2
    /\ ret.countWithIp = 1
    /\ \E i \in 1..2 : ret.entries[i].ip = NoIp

\* the Q-Bridge lines of the text that report the MAC, in walk order
QLinesOf(text, mac) ==
    SelectSeq(text, LAMBDA line :
                 QFdbMatch(line).ok /\ macFromDecOid(QFdbMatch(line).suffix) = mac)

\* C7: when the Q-Bridge walk is used, the bridge port of every entry is the
\* port of the first line of the walk that reports the entry's MAC, whatever
\* the port values are, 0 included.
C7_FirstLineWins ==
    (step = "done" /\ ret.source = "bridge" /\ BuildFdb(arg.fdb, EmptyMap) = EmptyMap) =>
       \A i \in 1..Len(ret.entries) :
          LET reports == QLinesOf(arg.qfdb, ret.entries[i].mac)
          IN  /\ reports # <<>>
              /\ ret.entries[i].bridgePort = ParseInt(QFdbMatch(reports[1]).port)

\* the portName is the synthesized one of the entry's bridge port
IsPortN(e) == e.portName = PortPrefix \o ToDecString(e.bridgePort)

\* C8: the entries of every result are in non-decreasing order of portName
\* under the numeric comparison; in particular of two entries named Port N
\* the one with the smaller number comes first, Port 2 before Port 10.
C8_SortedByPortName ==
    step = "done" =>
       \A i \in 1..Len(ret.entries) : \A j \in 1..Len(ret.entries) :
          i < j =>
             /\ localeCompare(ret.entries[i].portName, ret.entries[j].portName) <= 0
             /\ (IsPortN(ret.entries[i]) /\ IsPortN(ret.entries[j])) =>
                   ret.entries[i].bridgePort <= ret.entries[j].bridgePort

\* Port 2 stands before Port 10 although the walk reported port 10 first
C8_Port2BeforePort10 ==
    /\ step = "done"
    /\ Len(ret.entries) = 2
    /\ ret.entries[1].portName = PortPrefix \o <<"2">>
    /\ ret.entries[2].portName = PortPrefix \o <<"1", "0">>
    /\ FdbMatch(arg.fdb[1]).port = <<"1", "0">>

\* the suffix is six decimal components, none empty, none above 255
IsOctetSuffix(suffix) ==
    /\ Len(suffix) = 6
    /\ \A i \in 1..6 : suffix[i] # <<>> /\ ParseInt(suffix[i]) <= 255

\* C9: every mac of a result is six groups of two lowercase hex digits, and
\* macFromDecOid gives a MAC only for a suffix of six components that are
\* octets: not for a wrong number of components, an empty component or a
\* component above 255.
C9_MacsAreCanonical ==
    step = "done" =>
       /\ \A i \in 1..Len(ret.entries) : IsCanonicalMac(ret.entries[i].mac)
       /\ \A i \in 1..Len(arg.fdb) :
             (FdbMatch(arg.fdb[i]).ok /\ ~IsOctetSuffix(FdbMatch(arg.fdb[i]).suffix)) =>
                macFromDecOid(FdbMatch(arg.fdb[i]).suffix) = NoMac

\* positions from..to of s are blanks, or blanks up to one final double quote
BlanksThenQuote(s, from, to) ==
    \/ \A p \in from..to : IsSpace(s[p])
    \/ /\ from <= to
       /\ s[to] = "\""
       /\ \A p \in from..(to - 1) : IsSpace(s[p])

\* positions from..to of s are blanks, or one double quote and then blanks
QuoteThenBlanks(s, from, to) ==
    \/ \A p \in from..to : IsSpace(s[p])
    \/ /\ from <= to
       /\ s[from] = "\""
       /\ \A p \in (from + 1)..to : IsSpace(s[p])

\* the values the test can take from the text: a run j..k of characters
\* other than newline and double quote, that follows a STRING: tag after
\* blanks and at most one double quote, and reaches the end of a line
\* through at most one double quote and blanks
Extractions(out) ==
    LET n == Len(out)
    IN  { <<j, k>> \in (1..n) \X (1..n) :
            /\ j <= k
            /\ \A p \in j..k : out[p] \notin {"\n", "\""}
            /\ \E i \in 1..(j - 1) :
                  HoldsStringTag(out[i]) /\ BlanksThenQuote(out, i + 1, j - 1)
            /\ \E e \in (k + 1)..(n + 1) :
                  /\ (e = n + 1 \/ out[e] = "\n")
                  /\ QuoteThenBlanks(out, k + 1, e - 1) }

\* a value between two double quotes follows a STRING: tag
HasQuotedValue(out) ==
    \E i \in 1..Len(out) : \E j \in (i + 1)..Len(out) : \E k \in j..Len(out) :
       /\ HoldsStringTag(out[i])
       /\ \A p \in (i + 1)..(j - 2) : IsSpace(out[p])
       /\ j - 1 > i /\ out[j - 1] = "\""
       /\ \A p \in j..k : out[p] \notin {"\n", "\""}
       /\ k + 1 <= Len(out) /\ out[k + 1] = "\""

NoResponse == <<"n", "o", " ", "r", "e", "s", "p", "o", "n", "s", "e">>

\* C10 as stated: ok is true exactly when the text holds a quoted string
\* value; otherwise sysDescr is the first 200 characters of the raw text, or
\* the placeholder no response when the text is empty.
C10_OkIffQuotedValue ==
    step = "done" =>
       /\ ret.ok <=> HasQuotedValue(arg)
       /\ ~ret.ok => ret.sysDescr = (IF arg = <<>> THEN NoResponse ELSE Slice(arg))

\* C10 as the code has it: ok is true exactly when a value, with or without
\* double quotes, follows a STRING: tag and reaches the end of a line, and
\* sysDescr is then such a value, trimmed; otherwise sysDescr is the first
\* 200 characters of the trimmed text, or the placeholder Keine Antwort when
\* the trimmed text is empty.
C10_OkIffValueAtLineEnd ==
    step = "done" =>
       /\ ret.ok <=> Extractions(arg) # {}
       /\ ret.ok =>
             /\ \E x \in Extractions(arg) : ret.sysDescr = Trim(SubSeq(arg, x[1], x[2]))
             /\ \A p \in 1..Len(ret.sysDescr) : ret.sysDescr[p] \notin {"\n", "\""}
       /\ ~ret.ok =>
             LET text == Trim(arg)
             IN  IF text = <<>> THEN ret.sysDescr = NoAnswer
                 ELSE /\ Len(ret.sysDescr) = Min(Len(text), SliceLen)
                      /\ \A p \in 1..Len(ret.sysDescr) : ret.sysDescr[p] = text[p]

\* a value without double quotes was extracted
C10_UnquotedValue ==
    /\ step = "done"
    /\ arg = <<"STRING:", " ", "D">>
    /\ ret = [ok |-> TRUE, sysDescr |-> <<"D">>]

\* the batch the handler is waiting for
CurrentBatch ==
    IF pc = "bridge" THEN BridgeWalks
    ELSE IF pc = "wlan" THEN WlanWalks
    ELSE IF pc = "test" THEN TestWalks
    ELSE {}

\* the walks whose process exists
Started == {w \in Walks : procs[w].st # "none"}

\* C11: the walks of a step are all spawned in one go, before the caller
\* waits for any of them: while the handler waits, every walk of its batch
\* has been started, all at the same time; and the handler leaves a step, to
\* join the texts and to decide on the fallback, only when every walk of the
\* batch has settled, with output or with the empty text.
C11_JoinAfterWholeBatch ==
    /\ [](Awaiting =>
            /\ Started = CurrentBatch
            /\ \A v \in CurrentBatch : \A w \in CurrentBatch :
                  procs[v].deadline = procs[w].deadline)
    /\ [][pc' # pc =>
            /\ \A w \in CurrentBatch :
                  /\ procs[w].settled
                  /\ procs[w].st \in {"closed", "errored"}
            /\ spawns' # spawns =>
                  /\ \A w \in Walks :
                        procs'[w].st # "none" =>
                           procs'[w].st = "running" /\ ~procs'[w].settled
                  /\ spawns' - spawns = Cardinality({w \in Walks : procs'[w].st # "none"})
                  /\ spawns' - spawns \in {Cardinality(BridgeWalks),
                                          Cardinality(WlanWalks),
                                          Cardinality(TestWalks)}]_vars

\* the fallback was joined after its three walks had ended in three ways
C11_JoinedMixedBatch ==
    /\ MacTableRequest
    /\ pc = "done"
    /\ procs["client"].end = "exit0"
    /\ procs["client"].value # <<>>
    /\ procs["ssid"].end = "killed"
    /\ procs["warp"].end = "spawnError"
    /\ result.source = "wlan-clients"
    /\ Len(result.entries) = 1

\* what a walk contributes if a killed walk contributes nothing
UnlessKilled(w) == IF procs[w].end = "killed" THEN <<>> ELSE procs[w].value

\* C12 as stated: a walk killed by its timer contributes the empty text, so
\* the result is the one built from the outputs of its siblings alone.
C12_KilledWalkContributesNothing ==
    (MacTableRequest /\ pc = "done" /\ responses = <<200>>) =>
       IF Len(entries1) > 0
       THEN result = BridgeResult(BridgeEntries(UnlessKilled("fdb"), UnlessKilled("qfdb"),
                                                UnlessKilled("bp"), UnlessKilled("ifName"),
                                                UnlessKilled("arp")))
       ELSE result = WlanResult(UnlessKilled("client"), UnlessKilled("ssid"),
                                UnlessKilled("warp"))

\* the timer of walk w fires in this step
KillStep(w) == procs[w].timer = "armed" /\ procs'[w].timer = "fired"

\* C12 as the code has it: the step in which the timer of one walk kills its
\* process changes no other walk, neither process nor output nor promise,
\* and leaves the request as it is; the closing of the killed walk changes
\* no sibling either; the request is then answered with status 200 and the
\* result is built from all the texts written, also the text the killed
\* walk wrote before it was killed.
C12_KillLeavesSiblingsAlone ==
    /\ [][\A w \in Walks :
            (KillStep(w) \/ (procs[w].st = "killed" /\ procs'[w].st = "closed")) =>
               /\ \A v \in Walks \ {w} : procs'[v] = procs[v]
               /\ procs'[w].out = procs[w].out
               /\ <<pc, responses, result, spawns>>' = <<pc, responses, result, spawns>>]_vars
    /\ []((MacTableRequest /\ pc = "done" /\ responses # <<400>>) =>
            /\ responses = <<200>>
            /\ Len(entries1) = 0 =>
                  result = WlanResult(procs["client"].out, procs["ssid"].out,
                                      procs["warp"].out)
            /\ Len(entries1) > 0 =>
                  result = BridgeResult(BridgeEntries(procs["fdb"].out, procs["qfdb"].out,
                                                      procs["bp"].out, procs["ifName"].out,
                                                      procs["arp"].out)))

\* the SSID walk was killed after it had written its line; the client walk
\* ended by itself and the result names the SSID
C12_KilledSiblingOfCleanWalk ==
    /\ MacTableRequest
    /\ pc = "done"
    /\ procs["ssid"].end = "killed"
    /\ procs["ssid"].value = <<SsidLine>>
    /\ procs["client"].end = "exit0"
    /\ procs["client"].value = <<ClientLine>>
    /\ Len(result.entries) = 1
    /\ result.entries[1].portName # WlanPrefix

\* the result of snmpMacTable as a function of the texts of its walks
ResultOfTexts(t) ==
    LET entries == BridgeEntries(t.fdb, t.qfdb, t.bp, t.ifName, t.arp)
    IN  IF Len(entries) = 0
        THEN WlanResult(t.client, t.ssid, t.warp)
        ELSE BridgeResult(entries)

\* C13: with the texts of the walks fixed, the result of the resolution is
\* the same in whatever order the walks of a batch write their lines and
\* close: it is the join of the texts, each taken for the walk that wrote it.
C13_ResultIndependentOfOrder ==
    /\ step = "done" => ret.out = ResultOfTexts(arg)
    /\ (step \in {"bridge", "wlan"} /\ Len(ret.order) = Len(BatchOf(step))) =>
          \A i \in 1..Len(BatchOf(step)) : ret.values[i] = arg[BatchOf(step)[i]]

\* the walks resolved in the reverse of the order they were issued in, and
\* the entry still has the port and the address the texts give it
C13_ReverseCompletion ==
    /\ step = "done"
    /\ ret.order = <<"arp", "ifName", "bp", "qfdb", "fdb">>
    /\ Len(ret.out.entries) = 1
    /\ ret.out.entries[1].portName = <<"e", "t", "h", "1">>
    /\ ret.out.entries[1].ip # NoIp

\* C14: of two requests that run at the same time, with their walks
\* interleaved at will, each gets the result it would get alone with the
\* same walk outputs, the join of its own texts; and every walk resolves
\* with the text it wrote itself.
C14_RequestsAreIsolated ==
    \A r \in Requests :
       /\ step[r] = "done" => ret.out[r] = ResultOfTexts(arg[r])
       /\ \A w \in ret.closed[r] : ret.values[r][w] = arg[r][w]

\* a switch and an access point were resolved at the same time
C14_TwoDifferentResults ==
    /\ step = [r \in Requests |-> "done"]
    /\ ret.out[1].source = "wlan-clients"
    /\ Len(ret.out[1].entries) = 1
    /\ ret.out[2].source = "bridge"
    /\ Len(ret.out[2].entries) = 1
    /\ ret.out[2].entries[1].ip # NoIp

\* the MACs the classic Bridge-MIB text binds to a port
ClassicMacs(text) ==
    {macFromDecOid(FdbMatch(text[i]).suffix) :
        i \in {j \in 1..Len(text) : FdbMatch(text[j]).ok}} \ {NoMac}

\* C15: when the classic Bridge-MIB text gives at least one MAC, the mapping
\* and the result are those of the same texts with an empty Q-Bridge text,
\* whatever the Q-Bridge text is; the Q-Bridge text is read only when the
\* classic text gives no MAC.
C15_QBridgeOnlyWhenClassicEmpty ==
    (step = "done" /\ ret.source = "bridge") =>
       IF ClassicMacs(arg.fdb) # {}
       THEN /\ ret = BridgeResult(BridgeEntries(arg.fdb, <<>>, arg.bp, arg.ifName, arg.arp))
            /\ {ret.entries[i].mac : i \in 1..Len(ret.entries)} = ClassicMacs(arg.fdb)
       ELSE \A i \in 1..Len(ret.entries) : QLinesOf(arg.qfdb, ret.entries[i].mac) # <<>>

\* the classic text names one MAC, the Q-Bridge text another one that the
\* result does not hold
C15_QBridgeTextIgnored ==
    /\ step = "done"
    /\ ret.source = "bridge"
    /\ ClassicMacs(arg.fdb) # {}
    /\ \E i \in 1..Len(arg.qfdb) :
          /\ QFdbMatch(arg.qfdb[i]).ok
          /\ macFromDecOid(QFdbMatch(arg.qfdb[i]).suffix) \notin ClassicMacs(arg.fdb)
    /\ ret.count = 1

\* the ifIndex the port-index text binds the bridge port to, if any
IfIndexOf(e) ==
    LET bpToIf == BuildBpToIf(arg.bp, EmptyMap)
    IN  IF HasKey(bpToIf, ToDecString(e.bridgePort))
        THEN <<Lookup(bpToIf, ToDecString(e.bridgePort))>>
        ELSE <<>>

\* the name the interface-name text binds the ifIndex to, if any
IfNameOf(ifIdx) ==
    LET ifNames == BuildIfNames(arg.ifName, EmptyMap)
    IN  IF HasKey(ifNames, ToDecString(ifIdx))
        THEN <<Lookup(ifNames, ToDecString(ifIdx))>>
        ELSE <<>>

\* the address the ARP text binds the MAC to, or null
ArpIpOf(e) ==
    LET macToIp == BuildMacToIp(arg.arp, EmptyMap)
    IN  IF HasKey(macToIp, e.mac) THEN Lookup(macToIp, e.mac) ELSE NoIp

\* C16 as stated: the portName of a bridge entry is the name of the
\* interface its bridge port resolves to, and the synthesized Port N exactly
\* when the bridge port has no ifIndex; the ip is the address of the ARP
\* mapping, or null.
C16_SynthesizedOnlyWithoutIfIndex ==
    (step = "done" /\ ret.source = "bridge") =>
       \A i \in 1..Len(ret.entries) :
          LET e == ret.entries[i]
          IN  /\ IF IfIndexOf(e) = <<>>
                 THEN e.portName = PortPrefix \o ToDecString(e.bridgePort)
                 ELSE /\ IfNameOf(IfIndexOf(e)[1]) # <<>>
                      /\ e.portName = IfNameOf(IfIndexOf(e)[1])[1]
              /\ e.ip = ArpIpOf(e)

\* C16 as the code has it: the portName is the name of the interface when
\* the bridge port has an ifIndex other than 0 and that ifIndex has a name
\* that is not empty; in every other case, also with an ifIndex that is 0 or
\* has no name, it is the synthesized Port N; the ip is the address of the
\* ARP mapping, or null.
C16_NameOrSynthesizedPort ==
    (step = "done" /\ ret.source = "bridge") =>
       \A i \in 1..Len(ret.entries) :
          LET e == ret.entries[i]
              named == /\ IfIndexOf(e) # <<>>
                       /\ IfIndexOf(e)[1] # 0
                       /\ IfNameOf(IfIndexOf(e)[1]) \notin {<<>>, << <<>> >>}
          IN  /\ named => e.portName = IfNameOf(IfIndexOf(e)[1])[1]
              /\ ~named => e.portName = PortPrefix \o ToDecString(e.bridgePort)
              /\ e.ip = ArpIpOf(e)

\* one entry is named by its interface, another has an ifIndex without a
\* name and is called Port 7
C16_NamedAndUnnamedPort ==
    /\ step = "done"
    /\ ret.source = "bridge"
    /\ \E i \in 1..Len(ret.entries) :
          /\ IfIndexOf(ret.entries[i]) = <<9>>
          /\ ret.entries[i].portName = PortPrefix \o <<"7">>
    /\ arg.ifName # <<>>
    /\ arg.arp # <<>>

\* the record the client-table text gives for the MAC of an entry
ClientOf(e) == Lookup(BuildClients(arg.client, EmptyMap), e.mac)

\* the SSID the SSID text gives for the MAC of an entry, <<>> when none
SsidOf(e) ==
    LET macToSsid == BuildMacToSsid(arg.ssid, EmptyMap)
    IN  IF HasKey(macToSsid, e.mac) THEN Lookup(macToSsid, e.mac) ELSE <<>>

\* C17: in a wlan-clients result every entry has bridgePort 0 and the
\* portName WLAN: ssid, or WLAN without an SSID, then (2.4G) for band 1 and
\* (5G) for band 2 and nothing for another band, then CH and the channel
\* whenever the client table reported a channel, whatever its value.
C17_WlanPortName ==
    (step = "done" /\ ret.source = "wlan-clients") =>
       \A i \in 1..Len(ret.entries) :
          LET e == ret.entries[i]
              c == ClientOf(e)
              base == IF SsidOf(e) = <<>> THEN <<"W", "L", "A", "N">>
                      ELSE <<"W", "L", "A", "N", ":", " ">> \o SsidOf(e)
              band == IF c.band = 1 THEN <<" ", "(", "2", ".", "4", "G", ")">>
                      ELSE IF c.band = 2 THEN <<" ", "(", "5", "G", ")">>
                      ELSE <<>>
              chan == IF c.channel = Null THEN <<>>
                      ELSE <<" ", "C", "H">> \o ToDecString(c.channel)
          IN  /\ e.bridgePort = 0
              /\ e.portName = base \o band \o chan

\* C18: no two entries of a result have the same mac, whatever the texts
\* are: several forwarding-table lines for one MAC make one entry, and so do
\* several client-table columns of one WLAN client.
C18_OneEntryPerMac ==
    step = "done" =>
       /\ \A i \in 1..Len(ret.entries) : \A j \in 1..Len(ret.entries) :
             ret.entries[i].mac = ret.entries[j].mac => i = j
       /\ ret.source = "bridge" =>
             Len(ret.entries) <= Len(arg.fdb) + Len(arg.qfdb)
       /\ ret.source = "wlan-clients" =>
             Len(ret.entries) =
                Cardinality({macFromDecOid(ClientMatch(arg.client[i]).suffix) :
                                i \in 1..Len(arg.client)})

\* two columns of one WLAN client made one entry
C18_TwoColumnsOneClient ==
    /\ step = "done"
    /\ ret.source = "wlan-clients"
    /\ Len(arg.client) = 2
    /\ ClientMatch(arg.client[1]).col # ClientMatch(arg.client[2]).col
    /\ ClientMatch(arg.client[1]).suffix = ClientMatch(arg.client[2]).suffix
    /\ Len(ret.entries) = 1

\* C19: a request whose body has been received is answered exactly once on
\* every path: the response head is never written twice, and once the
\* handler has nothing left to wait for, one response has been written.
C19_ExactlyOneResponse ==
    /\ Len(responses) <= 1
    /\ (pc # "recv" /\ ~Awaiting) => Len(responses) = 1
    /\ Awaiting => responses = <<>>

\* C20: the kill timer of a walk is cancelled when its process reports close
\* or error, so no timer is armed for a walk that has resolved; the timer
\* fires only for a process that has run the 12 seconds without closing and
\* whose walk has not resolved; and once a walk has resolved, a later event
\* of its process, the close after an error, does not change its text.
C20_TimerCancelledOnSettle ==
    /\ [](\A w \in Walks :
             /\ procs[w].settled => procs[w].timer \in {"cleared", "fired"}
             /\ procs[w].st \in {"closed", "errored"} => procs[w].timer # "armed"
             /\ procs[w].timer = "cleared" => procs[w].end # "killed"
             /\ (procs[w].end = "spawnError" /\ procs[w].st = "closed") =>
                   procs[w].value = <<>>)
    /\ [][\A w \in Walks :
            /\ KillStep(w) =>
                  /\ ~procs[w].settled
                  /\ procs[w].st = "running"
                  /\ clock = procs[w].deadline
                  /\ procs'[w].st = "killed"
            /\ (procs[w].settled /\ procs'[w].st # "none") =>
                  /\ procs'[w].settled
                  /\ procs'[w].value = procs[w].value
                  /\ procs'[w].timer = procs[w].timer]_vars

\* one walk reported error and then close, another was killed by its timer
C20_ErrorThenCloseAndKill ==
    /\ \E w \in Walks :
          /\ procs[w].end = "spawnError"
          /\ procs[w].st = "closed"
          /\ procs[w].timer = "cleared"
          /\ procs[w].settled
    /\ \E v \in Walks :
          /\ procs[v].end = "killed"
          /\ procs[v].timer = "fired"
          /\ procs[v].st = "closed"

====
